---- MODULE Spec2Model ----
(***************************************************************************)
(* Flip7: the round/turn engine of src/game_functions.py (Deck,            *)
(* PlayerState, GameState) driven by the loop of src/random_sim.py.        *)
(*                                                                         *)
(* The draw pile is shuffled with random.shuffle before any card is taken  *)
(* from it, so the order of the pile is an unresolved random choice until  *)
(* a card is popped.  The piles are therefore kept as bags (multisets) and *)
(* Deck.draw takes any card still in the draw pile: every order a shuffle  *)
(* can produce is covered, and no order is singled out.                    *)
(***************************************************************************)
EXTENDS Integers, Sequences, FiniteSets, Bags, TLC

VARIABLES
    cards,          \* Deck.cards: the draw pile (a bag of cards)
    discard,        \* Deck.discard: the discard pile (a bag of cards)
    players,        \* GameState.players: 0..1 -> PlayerState record
    current,        \* GameState.current
    round_active,   \* GameState.round_active
    cumulative,     \* GameState.cumulative: 0..1 -> Int
    pc,             \* the caller: "start", "round", "over", "crashed" (run_simulation), "stray", "deck", "score"
    last            \* the last call made and what it returned

vars == <<cards, discard, players, current, round_active, cumulative, pc, last>>
game == <<cards, discard, players, current, round_active, cumulative>>

----------------------------------------------------------------------------
(* Bounds of the model. *)

\* the model's deck holds the number cards 0 .. NumberRange-1 (range(13) in
\* the program), each value as often as the program's deck holds it
NumberRange == 2
\* run_simulation(target_score): 100 by default
TargetScore == 2
\* compute_round_score is tried on hands over the values 0 .. ScoreValues-1
\* holding up to MaxMods modifiers
ScoreValues == 7
MaxMods == 3

----------------------------------------------------------------------------
(* Card model *)

ActionTypes == {"FLIP_THREE", "FREEZE", "SECOND_CHANCE"}
ModifierTypes == {"ADDITIVE", "MULTIPLIER"}

NumberCard(value) == [card_type |-> "NUMBER", value |-> value]
ActionCard(action_type) == [card_type |-> action_type]
ModifierCard(modifier_type, amount) == [card_type |-> modifier_type, amount |-> amount]

isNumberCard(card) == card.card_type = "NUMBER"
isActionCard(card) == card.card_type \in ActionTypes

None == <<>>
Some(x) == <<x>>

RECURSIVE SumSeq(_)
SumSeq(s) == IF s = <<>> THEN 0 ELSE Head(s) + SumSeq(Tail(s))

----------------------------------------------------------------------------
(* Deck *)

\* Deck.__init__: the composition, before the shuffle.  counts = {i: i if i > 0 else 1}
DeckCards(range, copies, additives, multipliers) ==
    [c \in {NumberCard(i) : i \in 0..(range - 1)} |-> IF c.value > 0 THEN c.value ELSE 1]
    (+) [c \in {ActionCard(t) : t \in ActionTypes} |-> copies]
    (+) SetToBag({ModifierCard("ADDITIVE", additives[k]) : k \in 1..Len(additives)})
    (+) [c \in {ModifierCard("MULTIPLIER", 2)} |-> multipliers]

AdditiveAmounts == <<2, 4, 6, 8, 10>>

\* the deck of the program
FullDeck == DeckCards(13, 4, AdditiveAmounts, 2)

\* the deck the model plays with: the program's number cards below NumberRange,
\* one copy of each action card and one multiplier
NewDeck == DeckCards(NumberRange, 1, <<>>, 1)

One(card) == SetToBag({card})

\* DeckDraw with the reshuffle forgetting to empty the discard pile
DeckDraw_KeepsDiscard(pile, disc) ==
    LET reshuffle == pile = EmptyBag /\ disc # EmptyBag
        pile1 == IF reshuffle THEN disc ELSE pile
    IN  {[card |-> c, cards |-> pile1 (-) One(c), discard |-> disc (+) One(c),
          reshuffled |-> reshuffle] : c \in BagToSet(pile1)}

\* DeckDraw that does not put the drawn card on the discard pile
DeckDraw_DropsDrawn(pile, disc) ==
    LET reshuffle == pile = EmptyBag /\ disc # EmptyBag
        pile1 == IF reshuffle THEN disc ELSE pile
        disc1 == IF reshuffle THEN EmptyBag ELSE disc
    IN  {[card |-> c, cards |-> pile1 (-) One(c), discard |-> disc1,
          reshuffled |-> reshuffle] : c \in BagToSet(pile1)}

\* Deck.draw: the outcomes of one call, one per card the shuffled pile may end with.
\* Empty when both piles are empty (the call raises IndexError).
DeckDraw(pile, disc) ==
    LET reshuffle == pile = EmptyBag /\ disc # EmptyBag
        pile1 == IF reshuffle THEN disc ELSE pile
        disc1 == IF reshuffle THEN EmptyBag ELSE disc
    IN  {[card |-> c, cards |-> pile1 (-) One(c), discard |-> disc1 (+) One(c),
          reshuffled |-> reshuffle] : c \in BagToSet(pile1)}

----------------------------------------------------------------------------
(* Player round state *)

\* PlayerState.__init__
PlayerState ==
    [flipped |-> <<>>, modifiers |-> <<>>, has_second_chance |-> FALSE,
     pending_flips |-> 0, active |-> TRUE, need_flip_decision |-> FALSE,
     need_freeze_decision |-> FALSE, busted |-> FALSE]

\* reset_round leaving a held Second Chance with the player
reset_round_KeepsSecondChance(ps) ==
    [ps EXCEPT !.flipped = <<>>, !.modifiers = <<>>,
               !.pending_flips = 0, !.active = TRUE, !.need_flip_decision = FALSE,
               !.need_freeze_decision = FALSE, !.busted = FALSE]

\* PlayerState.reset_round
reset_round(ps) ==
    [ps EXCEPT !.flipped = <<>>, !.modifiers = <<>>, !.has_second_chance = FALSE,
               !.pending_flips = 0, !.active = TRUE, !.need_flip_decision = FALSE,
               !.need_freeze_decision = FALSE, !.busted = FALSE]

----------------------------------------------------------------------------
(* GameState *)

Players == 0..1

\* any(p.active for p in self.players)
AnyActive(pls) == \E i \in Players : pls[i].active

\* get_actions with the forced draws tested before the decisions
get_actions_ForcedFirst ==
    LET ps == players[current]
    IN  IF ~ps.active \/ ~round_active THEN <<>>
        ELSE IF ps.pending_flips > 0 THEN <<"Hit">>
        ELSE IF ps.need_flip_decision THEN <<"KeepFlipThree", "PassFlipThree">>
        ELSE IF ps.need_freeze_decision THEN <<"KeepFreeze", "PassFreeze">>
        ELSE <<"Hit", "Stay">>

\* GameState.get_actions
get_actions ==
    LET ps == players[current]
    IN  IF ~ps.active \/ ~round_active THEN <<>>
        ELSE IF ps.need_flip_decision THEN <<"KeepFlipThree", "PassFlipThree">>
        ELSE IF ps.need_freeze_decision THEN <<"KeepFreeze", "PassFreeze">>
        ELSE IF ps.pending_flips > 0 THEN <<"Hit">>
        ELSE <<"Hit", "Stay">>

\* for m in player.modifiers: if m.card_type==MULTIPLIER: total*=m.amount
RECURSIVE ApplyMultipliers(_, _)
ApplyMultipliers(total, mods) ==
    IF mods = <<>> THEN total
    ELSE ApplyMultipliers(IF Head(mods).card_type = "MULTIPLIER"
                          THEN total * Head(mods).amount ELSE total, Tail(mods))

\* for m in player.modifiers: if m.card_type==ADDITIVE: total+=m.amount
RECURSIVE ApplyAdditives(_, _)
ApplyAdditives(total, mods) ==
    IF mods = <<>> THEN total
    ELSE ApplyAdditives(IF Head(mods).card_type = "ADDITIVE"
                        THEN total + Head(mods).amount ELSE total, Tail(mods))

\* len({c.value for c in player.flipped}) >= 7: total += 15
SevenBonus(flipped) ==
    IF Cardinality({flipped[i].value : i \in 1..Len(flipped)}) >= 7 THEN 15 ELSE 0

\* compute_round_score applying the modifiers in one pass, in the order held
RECURSIVE ApplyInOrder(_, _)
ApplyInOrder(total, mods) ==
    IF mods = <<>> THEN total
    ELSE ApplyInOrder(IF Head(mods).card_type = "MULTIPLIER"
                      THEN total * Head(mods).amount ELSE total + Head(mods).amount, Tail(mods))

compute_round_score_InOrder(player) ==
    IF player.busted THEN 0
    ELSE LET total == SumSeq([i \in 1..Len(player.flipped) |-> player.flipped[i].value])
         IN  ApplyInOrder(total, player.modifiers) + SevenBonus(player.flipped)

\* compute_round_score with a bust zeroing only the flipped total
compute_round_score_BustKeepsExtras(player) ==
    LET total == IF player.busted THEN 0
                 ELSE SumSeq([i \in 1..Len(player.flipped) |-> player.flipped[i].value])
        multiplied == ApplyMultipliers(total, player.modifiers)
        added == ApplyAdditives(multiplied, player.modifiers)
    IN  added + SevenBonus(player.flipped)

\* GameState.compute_round_score
compute_round_score(player) ==
    IF player.busted THEN 0
    ELSE LET total == SumSeq([i \in 1..Len(player.flipped) |-> player.flipped[i].value])
             multiplied == ApplyMultipliers(total, player.modifiers)
             added == ApplyAdditives(multiplied, player.modifiers)
         IN  added + SevenBonus(player.flipped)

\* what a call leaves behind for the caller: the token, the card returned (or None)
Called(op, action, ret, raised, reshuffled) ==
    [op |-> op, action |-> action, ret |-> ret, raised |-> raised, reshuffled |-> reshuffled]

\* AdvanceOrEnd that never ends the round
AdvanceOrEnd_NeverEnds(pls) ==
    /\ current' = IF AnyActive(pls) THEN 1 - current ELSE current
    /\ round_active' = round_active

\* if any(p.active for p in self.players): self.current^=1 / else: self.round_active=False
AdvanceOrEnd(pls) ==
    /\ current' = IF AnyActive(pls) THEN 1 - current ELSE current
    /\ round_active' = IF AnyActive(pls) THEN round_active ELSE FALSE

\* FlipThreeDecision with PassFlipThree leaving the turn where it is
FlipThreeDecision_KeepsTurn(action) ==
    /\ players' = IF action = "KeepFlipThree"
                  THEN [players EXCEPT ![current].pending_flips = @ + 3,
                                       ![current].need_flip_decision = FALSE]
                  ELSE [players EXCEPT ![1 - current].pending_flips = @ + 3,
                                       ![current].need_flip_decision = FALSE]
    /\ current' = current
    /\ last' = [op |-> "step", action |-> action, ret |-> None, raised |-> FALSE,
                reshuffled |-> FALSE]
    /\ UNCHANGED <<cards, discard, round_active, cumulative>>

\* step: the Flip-Three decision branch
FlipThreeDecision(action) ==
    /\ players' = IF action = "KeepFlipThree"
                  THEN [players EXCEPT ![current].pending_flips = @ + 3,
                                       ![current].need_flip_decision = FALSE]
                  ELSE [players EXCEPT ![1 - current].pending_flips = @ + 3,
                                       ![current].need_flip_decision = FALSE]
    /\ current' = IF action = "KeepFlipThree" THEN current ELSE 1 - current
    /\ last' = Called("step", action, None, FALSE, FALSE)
    /\ UNCHANGED <<cards, discard, round_active, cumulative>>

\* FreezeDecision banking the current player's score whoever is frozen
FreezeDecision_BanksCurrentScore(action) ==
    LET target == IF action = "KeepFreeze" THEN current ELSE 1 - current
        pts == compute_round_score(players[current])
        pls == [players EXCEPT ![target].active = FALSE,
                               ![current].need_freeze_decision = FALSE]
    IN  /\ cumulative' = [cumulative EXCEPT ![target] = @ + pts]
        /\ players' = pls
        /\ AdvanceOrEnd(pls)
        /\ last' = Called("step", action, None, FALSE, FALSE)
        /\ UNCHANGED <<cards, discard>>

\* step: the Freeze decision branch
FreezeDecision(action) ==
    LET target == IF action = "KeepFreeze" THEN current ELSE 1 - current
        pts == compute_round_score(players[target])
        pls == [players EXCEPT ![target].active = FALSE,
                               ![current].need_freeze_decision = FALSE]
    IN  /\ cumulative' = [cumulative EXCEPT ![target] = @ + pts]
        /\ players' = pls
        /\ AdvanceOrEnd(pls)
        /\ last' = Called("step", action, None, FALSE, FALSE)
        /\ UNCHANGED <<cards, discard>>

\* step: the early return (inactive player, ended round) and the final return None
NoOp(action) ==
    /\ last' = Called("step", action, None, FALSE, FALSE)
    /\ UNCHANGED game

\* Stay banking the score and leaving the player in the round
Stay_KeepsPlaying(action) ==
    LET pts == compute_round_score(players[current])
    IN  /\ cumulative' = [cumulative EXCEPT ![current] = @ + pts]
        /\ AdvanceOrEnd(players)
        /\ last' = Called("step", action, None, FALSE, FALSE)
        /\ UNCHANGED <<cards, discard, players>>

\* step: Stay
Stay(action) ==
    LET pts == compute_round_score(players[current])
        pls == [players EXCEPT ![current].active = FALSE]
    IN  /\ cumulative' = [cumulative EXCEPT ![current] = @ + pts]
        /\ players' = pls
        /\ AdvanceOrEnd(pls)
        /\ last' = Called("step", action, None, FALSE, FALSE)
        /\ UNCHANGED <<cards, discard>>

\* any(c.value==card.value for c in ps.flipped)
HasValue(flipped, card) == \E i \in 1..Len(flipped) : flipped[i].value = card.value

\* DrawNumber marking the bust and leaving the player in the round
DrawNumber_BustStaysActive(ps, card) ==
    IF HasValue(ps.flipped, card)
    THEN IF ~ps.has_second_chance
         THEN [ps EXCEPT !.busted = TRUE]
         ELSE [ps EXCEPT !.has_second_chance = FALSE]
    ELSE [ps EXCEPT !.flipped = Append(@, card)]

\* DrawNumber saving the player and keeping the Second Chance
DrawNumber_KeepsSecondChance(ps, card) ==
    IF HasValue(ps.flipped, card)
    THEN IF ~ps.has_second_chance
         THEN [ps EXCEPT !.active = FALSE, !.busted = TRUE]
         ELSE ps
    ELSE [ps EXCEPT !.flipped = Append(@, card)]

\* DrawNumber keeping the duplicate that a Second Chance saved
DrawNumber_KeepsSavedDuplicate(ps, card) ==
    IF HasValue(ps.flipped, card)
    THEN IF ~ps.has_second_chance
         THEN [ps EXCEPT !.active = FALSE, !.busted = TRUE]
         ELSE [ps EXCEPT !.has_second_chance = FALSE, !.flipped = Append(@, card)]
    ELSE [ps EXCEPT !.flipped = Append(@, card)]

\* step, Hit: the player and the points banked once the drawn card is resolved
DrawNumber(ps, card) ==
    IF HasValue(ps.flipped, card)
    THEN IF ~ps.has_second_chance
         THEN [ps EXCEPT !.active = FALSE, !.busted = TRUE]
         ELSE [ps EXCEPT !.has_second_chance = FALSE]
    ELSE [ps EXCEPT !.flipped = Append(@, card)]

\* DrawFlipThree asking for a decision whatever the other player's state
DrawFlipThree_AlwaysAsks(ps, other) == [ps EXCEPT !.need_flip_decision = TRUE]

DrawFlipThree(ps, other) ==
    IF other.active THEN [ps EXCEPT !.need_flip_decision = TRUE]
    ELSE [ps EXCEPT !.pending_flips = @ + 3]

\* DrawFreeze asking for a decision whatever the other player's state
DrawFreeze_AlwaysAsks(ps, other) == [ps EXCEPT !.need_freeze_decision = TRUE]

DrawFreeze(ps, other) ==
    IF other.active THEN [ps EXCEPT !.need_freeze_decision = TRUE]
    ELSE [ps EXCEPT !.active = FALSE]

FreezePoints(ps, other) ==
    IF other.active THEN 0 ELSE compute_round_score(ps)

Resolve(ps, other, card) ==
    IF isNumberCard(card) THEN [ps |-> DrawNumber(ps, card), pts |-> 0]
    ELSE IF isActionCard(card) THEN
        IF card.card_type = "FLIP_THREE" THEN [ps |-> DrawFlipThree(ps, other), pts |-> 0]
        ELSE IF card.card_type = "FREEZE"
             THEN [ps |-> DrawFreeze(ps, other), pts |-> FreezePoints(ps, other)]
        ELSE [ps |-> [ps EXCEPT !.has_second_chance = TRUE], pts |-> 0]
    ELSE [ps |-> [ps EXCEPT !.modifiers = Append(@, card)], pts |-> 0]

\* KeepsTurn looking at the decision flags only
KeepsTurn_IgnoresPendingFlips(ps) == ps.need_flip_decision \/ ps.need_freeze_decision

\* toggle after draw except if a decision or forced flips are pending
KeepsTurn(ps) == ps.need_flip_decision \/ ps.need_freeze_decision \/ ps.pending_flips # 0

\* step: Hit
Hit(action) ==
    LET ps0 == players[current]
        other == players[1 - current]
        ps1 == IF ps0.pending_flips > 0 THEN [ps0 EXCEPT !.pending_flips = @ - 1] ELSE ps0
        draws == DeckDraw(cards, discard)
    IN  IF draws = {}
        THEN /\ players' = [players EXCEPT ![current] = ps1]
             /\ last' = Called("step", action, None, TRUE, FALSE)
             /\ UNCHANGED <<cards, discard, current, round_active, cumulative>>
        ELSE \E d \in draws :
             LET r == Resolve(ps1, other, d.card)
                 pls == [players EXCEPT ![current] = r.ps]
             IN  /\ cards' = d.cards
                 /\ discard' = d.discard
                 /\ players' = pls
                 /\ cumulative' = [cumulative EXCEPT ![current] = @ + r.pts]
                 /\ current' = IF KeepsTurn(r.ps) THEN current ELSE 1 - current
                 /\ round_active' = IF AnyActive(pls) THEN round_active ELSE FALSE
                 /\ last' = Called("step", action, Some(d.card), FALSE, d.reshuffled)

FlipTokens == {"KeepFlipThree", "PassFlipThree"}
FreezeTokens == {"KeepFreeze", "PassFreeze"}

\* GameState.step
step(action) ==
    LET ps == players[current]
    IN  IF ps.need_flip_decision /\ action \in FlipTokens THEN FlipThreeDecision(action)
        ELSE IF ps.need_freeze_decision /\ action \in FreezeTokens THEN FreezeDecision(action)
        ELSE IF ~ps.active \/ ~round_active THEN NoOp(action)
        ELSE IF action = "Stay" THEN Stay(action)
        ELSE IF action = "Hit" THEN Hit(action)
        ELSE NoOp(action)

----------------------------------------------------------------------------
(* The driver: run_simulation *)

Max(a, b) == IF a >= b THEN a ELSE b

Range(s) == {s[i] : i \in 1..Len(s)}

\* GameState.__init__, as run_simulation builds it
Init ==
    /\ cards = NewDeck
    /\ discard = EmptyBag
    /\ players = [i \in Players |-> PlayerState]
    /\ current = 0
    /\ round_active = TRUE
    /\ cumulative = [i \in Players |-> 0]
    /\ pc = "start"
    /\ last = Called("init", "", None, FALSE, FALSE)

\* a new round that also clears the running totals
NewRound_ClearsScores ==
    /\ pc = "start" \/ (pc = "round" /\ ~round_active)
    /\ Max(cumulative[0], cumulative[1]) < TargetScore
    /\ round_active' = TRUE
    /\ cards' = NewDeck
    /\ discard' = EmptyBag
    /\ players' = [i \in Players |-> reset_round(players[i])]
    /\ cumulative' = [i \in Players |-> 0]
    /\ pc' = "round"
    /\ last' = Called("new_round", "", None, FALSE, FALSE)
    /\ UNCHANGED current

\* while max(gs.cumulative) < target_score: start a new round
NewRound ==
    /\ pc = "start" \/ (pc = "round" /\ ~round_active)
    /\ Max(cumulative[0], cumulative[1]) < TargetScore
    /\ round_active' = TRUE
    /\ cards' = NewDeck
    /\ discard' = EmptyBag
    /\ players' = [i \in Players |-> reset_round(players[i])]
    /\ pc' = "round"
    /\ last' = Called("new_round", "", None, FALSE, FALSE)
    /\ UNCHANGED <<current, cumulative>>

\* the loop ends once a cumulative score reaches the target
GameOver ==
    /\ pc = "start" \/ (pc = "round" /\ ~round_active)
    /\ Max(cumulative[0], cumulative[1]) >= TargetScore
    /\ pc' = "over"
    /\ last' = Called("game_over", "", None, FALSE, FALSE)
    /\ UNCHANGED game

\* a skip that leaves the turn with the player who has no action
Skip_KeepsCurrent ==
    /\ pc = "round" /\ round_active
    /\ get_actions = <<>>
    /\ last' = Called("skip", "", None, FALSE, FALSE)
    /\ UNCHANGED <<cards, discard, players, current, round_active, cumulative, pc>>

\* if not actions: gs.current ^= 1; continue
Skip ==
    /\ pc = "round" /\ round_active
    /\ get_actions = <<>>
    /\ current' = 1 - current
    /\ last' = Called("skip", "", None, FALSE, FALSE)
    /\ UNCHANGED <<cards, discard, players, round_active, cumulative, pc>>

\* action = random choice among actions; card = gs.step(action)
Play ==
    /\ pc = "round" /\ round_active
    /\ \E action \in Range(get_actions) : step(action)
    /\ pc' = IF last'.raised THEN "crashed" ELSE pc

Next == NewRound \/ Skip \/ Play \/ GameOver

Spec == Init /\ [][Next]_vars

----------------------------------------------------------------------------
(* A caller that does not honour get_actions: one call of step with a      *)
(* token get_actions does not offer, made from a state of legal play.      *)

Tokens == {"Hit", "Stay", "KeepFlipThree", "PassFlipThree", "KeepFreeze", "PassFreeze", "Fold"}

Stray ==
    /\ pc = "round"
    /\ \E action \in Tokens \ Range(get_actions) : step(action)
    /\ pc' = "stray"

NextTokens == Next \/ Stray

SpecTokens == Init /\ [][NextTokens]_vars

----------------------------------------------------------------------------
(* The deck alone: a fresh deck and any sequence of draw() calls.          *)

InitDeck ==
    /\ cards = NewDeck
    /\ discard = EmptyBag
    /\ players = [i \in Players |-> PlayerState]
    /\ current = 0
    /\ round_active = TRUE
    /\ cumulative = [i \in Players |-> 0]
    /\ pc = "deck"
    /\ last = Called("init", "", None, FALSE, FALSE)

\* Deck.draw
Draw ==
    /\ pc = "deck"
    /\ LET draws == DeckDraw(cards, discard)
       IN  IF draws = {}
           THEN /\ last' = Called("draw", "", None, TRUE, FALSE)
                /\ UNCHANGED <<cards, discard>>
           ELSE \E d \in draws :
                /\ cards' = d.cards
                /\ discard' = d.discard
                /\ last' = Called("draw", "", Some(d.card), FALSE, d.reshuffled)
    /\ UNCHANGED <<players, current, round_active, cumulative, pc>>

SpecDeck == InitDeck /\ [][Draw]_vars

----------------------------------------------------------------------------
(* compute_round_score alone, on hands built as _run_tests builds them.    *)

RECURSIVE SetToSeq(_)
SetToSeq(S) ==
    IF S = {} THEN <<>>
    ELSE LET m == CHOOSE x \in S : \A y \in S : x <= y
         IN  <<NumberCard(m)>> \o SetToSeq(S \ {m})

\* hands of distinct values, and the same hands with one value flipped twice
Hands ==
    LET plain == {SetToSeq(S) : S \in SUBSET (0..(ScoreValues - 1))}
    IN  plain \cup {Append(h, h[1]) : h \in plain \ {<<>>}}

ModPool == {ModifierCard("MULTIPLIER", 2), ModifierCard("MULTIPLIER", 3),
            ModifierCard("ADDITIVE", 2), ModifierCard("ADDITIVE", 3)}

ModLists == UNION {[1..n -> ModPool] : n \in 0..MaxMods}

InitScore ==
    /\ cards = NewDeck
    /\ discard = EmptyBag
    /\ \E h \in Hands, m \in ModLists, b \in BOOLEAN :
          players = [i \in Players |->
                        IF i = 0 THEN [PlayerState EXCEPT !.flipped = h, !.modifiers = m, !.busted = b]
                        ELSE PlayerState]
    /\ current = 0
    /\ round_active = TRUE
    /\ cumulative = [i \in Players |-> 0]
    /\ pc = "score"
    /\ last = Called("init", "", None, FALSE, FALSE)

\* gs.compute_round_score(p)
Score ==
    /\ pc = "score"
    /\ last.op = "init"
    /\ last' = Called("compute_round_score", "", Some(compute_round_score(players[0])), FALSE, FALSE)
    /\ UNCHANGED <<game, pc>>

SpecScore == InitScore /\ [][Score]_vars

----------------------------------------------------------------------------
(* One round of the driver, from its start to round_active = false, with a *)
(* deck that keeps the program's copies of each number value.              *)

\* Deck.__init__ cut down from the top: the NumberRange highest number values
\* with the copies the program gives them (value i comes i times), one copy of
\* each action card and one multiplier
RoundDeck ==
    LET deck == DeckCards(13, 1, <<>>, 1)
        kept == {c \in DOMAIN deck : isNumberCard(c) => c.value >= 13 - NumberRange}
    IN  [c \in kept |-> deck[c]]

\* the state run_simulation plays a round from: new deck, reset players,
\* round_active set; current is whatever the round before left
InitRound ==
    /\ cards = RoundDeck
    /\ discard = EmptyBag
    /\ players = [i \in Players |-> reset_round(PlayerState)]
    /\ current \in Players
    /\ round_active = TRUE
    /\ cumulative = [i \in Players |-> 0]
    /\ pc = "round"
    /\ last = Called("new_round", "", None, FALSE, FALSE)

\* while gs.round_active: skip or step
NextRound == Skip \/ Play

\* the loop runs an iteration as long as round_active holds
SpecRound == InitRound /\ [][NextRound]_vars /\ WF_vars(NextRound)

----------------------------------------------------------------------------
(* Claims *)

\* a step with a token that get_actions offered in the state it was called in
LegalStep == last'.op = "step" /\ pc = "round" /\ last'.action \in Range(get_actions)
\* a step with a token that get_actions did not offer
IllegalStep == last'.op = "step" /\ pc = "round" /\ last'.action \notin Range(get_actions)

\* C1: from every state of legal play, step(a) with a token a that get_actions()
\* does not offer returns no card and leaves the whole GameState unchanged.
C1_IllegalActionsAreNoOps ==
    [][IllegalStep => (last'.ret = None /\ UNCHANGED game)]_vars

\* C2: round_active is false if and only if no player is active.
C2_RoundActiveIffSomeoneActive ==
    round_active <=> AnyActive(players)

\* C2 witness: a round that legal play has ended.
C2_RoundEnded ==
    pc = "round" /\ last.op = "step" /\ ~round_active /\ ~AnyActive(players)

\* C3: after a legal KeepFreeze or PassFreeze, if a player remains active then
\* current designates an active player; otherwise the round has ended.
C3_FreezeTurnGoesToActivePlayer ==
    [][(LegalStep /\ last'.action \in FreezeTokens) =>
          IF AnyActive(players') THEN players'[current'].active ELSE ~round_active']_vars

\* C4: a player who becomes inactive in a legal step is banked its round score
\* at that moment (nothing on a bust), and the other player's cumulative score
\* is left alone.
C4_Banking ==
    [][\A p \in Players :
          (LegalStep /\ players[p].active /\ ~players'[p].active) =>
              /\ cumulative'[p] = cumulative[p]
                    + (IF players'[p].busted THEN 0 ELSE compute_round_score(players[p]))
              /\ cumulative'[1 - p] = cumulative[1 - p]]_vars

\* C4 witness: PassFreeze has just frozen a player holding points, who banked them.
C4_FrozenPlayerBanked ==
    /\ last.op = "step" /\ last.action = "PassFreeze"
    /\ \E p \in Players : ~players[p].active /\ players[1 - p].active
                          /\ players[p].flipped # <<>> /\ cumulative[p] > 0

\* C5: KeepFlipThree adds 3 to the current player's pending_flips and keeps
\* current; PassFlipThree adds 3 to the other player's pending_flips and switches
\* current to that player; both clear need_flip_decision, draw no card and change
\* nothing else.
C5_FlipThreeDecision ==
    [][(LegalStep /\ last'.action \in FlipTokens) =>
          LET target == IF last'.action = "KeepFlipThree" THEN current ELSE 1 - current
          IN  /\ players[current].need_flip_decision
              /\ players'[target].pending_flips = players[target].pending_flips + 3
              /\ current' = target
              /\ (last'.action = "PassFlipThree" => current' # current)
              /\ ~players'[current].need_flip_decision
              /\ \A p \in Players :
                    [players'[p] EXCEPT !.pending_flips = 0, !.need_flip_decision = FALSE]
                    = [players[p] EXCEPT !.pending_flips = 0, !.need_flip_decision = FALSE]
              /\ players'[1 - target].pending_flips = players[1 - target].pending_flips
              /\ players'[1 - current].need_flip_decision = players[1 - current].need_flip_decision
              /\ last'.ret = None
              /\ UNCHANGED <<cards, discard, round_active, cumulative>>]_vars

\* C5 witness: a Flip-Three has just been passed to the other player.
C5_FlipThreePassed ==
    /\ last.op = "step" /\ last.action = "PassFlipThree"
    /\ players[current].pending_flips = 3

DeckCount == BagCardinality(cards) + BagCardinality(discard)

\* C6: the two piles together always hold the whole deck (98 cards for the
\* program's composition); a draw from a non-empty draw pile moves exactly one
\* card from the draw pile to the discard pile, and that card is the one returned.
C6_DeckConservation ==
    [][/\ BagCardinality(FullDeck) = 98
       /\ DeckCount = BagCardinality(NewDeck)
       /\ DeckCount' = BagCardinality(NewDeck)
       /\ (last'.op = "draw" /\ cards # EmptyBag) =>
             /\ last'.ret # None
             /\ BagIn(last'.ret[1], cards)
             /\ BagCardinality(cards') = BagCardinality(cards) - 1
             /\ BagCardinality(discard') = BagCardinality(discard) + 1
             /\ cards' = cards (-) One(last'.ret[1])
             /\ discard' = discard (+) One(last'.ret[1])]_vars

\* C6 witness: a draw that found the draw pile empty and reshuffled the discard pile.
C6_DrawAfterReshuffle ==
    /\ last.op = "draw" /\ last.reshuffled
    /\ BagCardinality(discard) = 1

Distinct(flipped) ==
    \A i, j \in 1..Len(flipped) : i # j => flipped[i].value # flipped[j].value

\* C7: no player's flipped holds two cards of the same value, and a Hit that
\* draws a Number whose value the drawer already holds does not append it.
C7_DistinctFlipped ==
    [][/\ \A p \in Players : Distinct(players[p].flipped) /\ Distinct(players'[p].flipped)
       /\ (/\ LegalStep /\ last'.action = "Hit" /\ last'.ret # None
           /\ isNumberCard(last'.ret[1])
           /\ HasValue(players[current].flipped, last'.ret[1]))
          => players'[current].flipped = players[current].flipped]_vars

\* C7 witness: the Hit that ended the round drew a Number its drawer already
\* held (the drawer is the only busted player, the other one was out before).
C7_DuplicateDrawn ==
    /\ last.op = "step" /\ last.action = "Hit" /\ ~round_active
    /\ last.ret # None /\ isNumberCard(last.ret[1])
    /\ \E p \in Players : /\ players[p].busted /\ ~players[1 - p].busted
                          /\ HasValue(players[p].flipped, last.ret[1])

\* C8: get_actions() is [] for an inactive current player or an ended round,
\* else the Flip-Three tokens if need_flip_decision, else the Freeze tokens if
\* need_freeze_decision, else [Hit] if pending_flips > 0, else [Hit, Stay]; Stay
\* is never offered with a decision pending or forced draws owed.
C8_LegalActionTable ==
    LET ps == players[current]
        offered == get_actions
        decided == ~ps.need_flip_decision /\ ~ps.need_freeze_decision
    IN  /\ (~ps.active \/ ~round_active) => offered = <<>>
        /\ (ps.active /\ round_active) =>
              /\ ps.need_flip_decision => offered = <<"KeepFlipThree", "PassFlipThree">>
              /\ (~ps.need_flip_decision /\ ps.need_freeze_decision)
                    => offered = <<"KeepFreeze", "PassFreeze">>
              /\ (decided /\ ps.pending_flips > 0) => offered = <<"Hit">>
              /\ (decided /\ ps.pending_flips <= 0) => offered = <<"Hit", "Stay">>
        /\ "Stay" \in Range(offered) => (decided /\ ps.pending_flips = 0)

\* C8 witness: the current player owes a Freeze decision and forced draws at once.
C8_DecisionWhileForced ==
    /\ pc = "round" /\ round_active /\ players[current].active
    /\ players[current].need_freeze_decision /\ players[current].pending_flips > 0

RECURSIVE Product(_)
Product(s) == IF s = <<>> THEN 1 ELSE Head(s) * Product(Tail(s))

Amounts(mods, kind) ==
    LET held == SelectSeq(mods, LAMBDA m : m.card_type = kind)
    IN  [i \in 1..Len(held) |-> held[i].amount]

Values(flipped) == [i \in 1..Len(flipped) |-> flipped[i].value]

Formula(p) ==
    SumSeq(Values(p.flipped)) * Product(Amounts(p.modifiers, "MULTIPLIER"))
    + SumSeq(Amounts(p.modifiers, "ADDITIVE"))
    + (IF Cardinality(Range(Values(p.flipped))) >= 7 THEN 15 ELSE 0)

Orders(n) == {q \in [1..n -> 1..n] : \A i, j \in 1..n : i # j => q[i] # q[j]}

Reordered(p, q) == [p EXCEPT !.modifiers = [i \in 1..Len(p.modifiers) |-> p.modifiers[q[i]]]]

\* C9: for a player who is not busted, compute_round_score is (sum of flipped
\* values) times every Multiplier amount, plus every Additive amount, plus 15 for
\* 7 or more distinct values, whatever the order the modifiers are held in;
\* {5,6} with Multiplier(2), Additive(3) scores 25 and {0..6} alone scores 36.
C9_ScoreFormula ==
    (last.op = "compute_round_score" /\ ~players[0].busted) =>
        LET p == players[0]
            got == last.ret[1]
        IN  /\ got = Formula(p)
            /\ \A q \in Orders(Len(p.modifiers)) : compute_round_score(Reordered(p, q)) = got
            /\ (/\ p.flipped = <<NumberCard(5), NumberCard(6)>>
                /\ Range(p.modifiers) = {ModifierCard("MULTIPLIER", 2), ModifierCard("ADDITIVE", 3)}
                /\ Len(p.modifiers) = 2) => got = 25
            /\ (p.flipped = SetToSeq(0..6) /\ p.modifiers = <<>>) => got = 36

\* C9 witness: the score of {5,6} holding Additive(3) before Multiplier(2).
C9_AdditiveHeldFirst ==
    /\ last.op = "compute_round_score" /\ ~players[0].busted
    /\ players[0].flipped = <<NumberCard(5), NumberCard(6)>>
    /\ players[0].modifiers = <<ModifierCard("ADDITIVE", 3), ModifierCard("MULTIPLIER", 2)>>

\* C10: compute_round_score of a busted player is 0, whatever it holds.
C10_BustZeroesScore ==
    (last.op = "compute_round_score" /\ players[0].busted) => last.ret = Some(0)

\* C10 witness: the score of a busted player holding 7 values and modifiers.
C10_BustedWithSeven ==
    /\ last.op = "compute_round_score" /\ players[0].busted
    /\ Cardinality(Range(Values(players[0].flipped))) >= 7
    /\ Len(players[0].modifiers) >= 2

\* a legal Hit that drew a Number whose value the drawer already held
DuplicateHit ==
    /\ LegalStep /\ last'.action = "Hit" /\ last'.ret # None
    /\ isNumberCard(last'.ret[1])
    /\ HasValue(players[current].flipped, last'.ret[1])

\* the last call was a Hit by player p that drew a Number p held before the
\* draw: p holds the value below the end of flipped (a card just appended is the
\* last one) and the other player does not hold it (the drawer always does)
DrewDuplicate(p) ==
    /\ last.op = "step" /\ last.action = "Hit" /\ last.ret # None
    /\ isNumberCard(last.ret[1])
    /\ \E i \in 1..(Len(players[p].flipped) - 1) : players[p].flipped[i].value = last.ret[1].value
    /\ ~HasValue(players[1 - p].flipped, last.ret[1])

\* C11: a legal Hit that draws a Number already in the drawer's flipped while
\* has_second_chance is false sets busted, clears active, does not append the
\* card and adds nothing to the drawer's cumulative score.
C11_DuplicateWithoutSecondChance ==
    [][(DuplicateHit /\ ~players[current].has_second_chance) =>
          /\ players'[current].busted
          /\ ~players'[current].active
          /\ players'[current].flipped = players[current].flipped
          /\ cumulative' = cumulative]_vars

\* C11 witness: a player holding points has just busted on a duplicate.
C11_Busted ==
    \E p \in Players : DrewDuplicate(p) /\ players[p].busted /\ ~players[p].active

\* C12: a legal Hit that draws a Number already in the drawer's flipped while
\* has_second_chance is true clears has_second_chance, leaves the card in the
\* discard pile and out of flipped, and leaves the drawer active and not busted.
C12_DuplicateWithSecondChance ==
    [][(DuplicateHit /\ players[current].has_second_chance) =>
          /\ ~players'[current].has_second_chance
          /\ BagIn(last'.ret[1], discard')
          /\ players'[current].flipped = players[current].flipped
          /\ players'[current].active
          /\ ~players'[current].busted
          /\ cumulative' = cumulative]_vars

\* C12 witness: a Second Chance has just been spent on a duplicate.
C12_Saved ==
    \E p \in Players : /\ DrewDuplicate(p)
                       /\ players[p].active /\ ~players[p].busted
                       /\ ~players[p].has_second_chance

\* C13: in every state of a game draw() finds a card: no call of step has
\* raised, and while a round is on the draw pile and the discard pile are not
\* both empty.
C13_DeckNeverExhausted ==
    /\ ~last.raised
    /\ pc # "crashed"
    /\ pc = "round" => DeckDraw(cards, discard) # {}

\* C13 witness: a Hit found the draw pile empty, reshuffled the discard pile and
\* returned a card.
C13_HitReshuffled ==
    /\ last.op = "step" /\ last.action = "Hit"
    /\ last.reshuffled /\ ~last.raised /\ last.ret # None

\* C14: starting a new round puts a fresh deck in the draw pile (98 cards in the
\* full composition) and empties the discard pile, puts every player at the
\* round-start defaults, sets round_active, and leaves cumulative unchanged.
C14_NewRound ==
    [][last'.op = "new_round" =>
          /\ cards' = NewDeck
          /\ BagCardinality(FullDeck) = 98
          /\ discard' = EmptyBag
          /\ \A p \in Players :
                players'[p] = [flipped |-> <<>>, modifiers |-> <<>>,
                               has_second_chance |-> FALSE, pending_flips |-> 0,
                               active |-> TRUE, need_flip_decision |-> FALSE,
                               need_freeze_decision |-> FALSE, busted |-> FALSE]
          /\ round_active'
          /\ cumulative' = cumulative]_vars

\* C14 witness: a round has started with points banked in an earlier round.
C14_RoundStartedWithScore ==
    /\ last.op = "new_round" /\ round_active
    /\ cumulative[0] + cumulative[1] > 0

\* C15: for every round state a player reaches, reset_round twice gives what
\* reset_round once gives, and that is the state of a new PlayerState; the
\* players of a new round are in that state.
C15_ResetIdempotent ==
    [][\A p \in Players :
          /\ reset_round(reset_round(players[p])) = reset_round(players[p])
          /\ reset_round(players[p]) = PlayerState
          /\ last'.op = "new_round" => /\ players'[p] = reset_round(players[p])
                                       /\ reset_round(players'[p]) = players'[p]]_vars

\* C15 witness: the players were reset after a round in which a player busted
\* and the other one banked points.
C15_ResetAfterPlay ==
    /\ last.op = "new_round"
    /\ players = [p \in Players |-> PlayerState]
    /\ \E p \in Players : cumulative[p] > 0 /\ cumulative[1 - p] = 0

\* a legal Hit, which returned the card it drew
LegalHit == LegalStep /\ last'.action = "Hit" /\ last'.ret # None

\* C16: after a legal Hit current changes to the other player if and only if the
\* acting player then has neither decision flag set and pending_flips = 0; the
\* round ends in that step if no player remains active; the card returned is the
\* card drawn (it went from the draw pile to the discard pile).
C16_TurnAdvanceAfterHit ==
    [][(LegalStep /\ last'.action = "Hit") =>
          /\ last'.ret # None /\ ~last'.raised
          /\ current' \in {current, 1 - current}
          /\ current' # current <=> /\ ~players'[current].need_flip_decision
                                    /\ ~players'[current].need_freeze_decision
                                    /\ players'[current].pending_flips = 0
          /\ round_active' <=> \E p \in Players : players'[p].active
          /\ BagIn(last'.ret[1], discard')
          /\ ~last'.reshuffled => /\ cards = cards' (+) SetToBag({last'.ret[1]})
                                  /\ discard' = discard (+) SetToBag({last'.ret[1]})]_vars

\* C16 witness: a Hit left its drawer in the round with forced draws still owed,
\* and the drawer kept the turn.
C16_KeptTurnForForcedDraw ==
    /\ last.op = "step" /\ last.action = "Hit" /\ last.ret # None
    /\ round_active /\ players[current].active
    /\ players[current].pending_flips > 0
    /\ ~isActionCard(last.ret[1])

\* C17: a legal Hit that draws FlipThree or Freeze while the other player is
\* inactive sets no decision flag; FlipThree adds 3 to the drawer's pending_flips
\* and the drawer keeps the turn; Freeze banks the drawer's round score,
\* deactivates the drawer and ends the round in that step.
C17_ActionCardAgainstInactiveOpponent ==
    [][(/\ LegalHit
        /\ isActionCard(last'.ret[1])
        /\ last'.ret[1].card_type \in {"FLIP_THREE", "FREEZE"}
        /\ ~players[1 - current].active) =>
          LET ps == players[current]
              owed == IF ps.pending_flips > 0 THEN ps.pending_flips - 1 ELSE 0
          IN  /\ \A p \in Players : /\ ~players'[p].need_flip_decision
                                    /\ ~players'[p].need_freeze_decision
              /\ last'.ret[1].card_type = "FLIP_THREE" =>
                    /\ players'[current].pending_flips = owed + 3
                    /\ current' = current
                    /\ players'[current].active /\ round_active'
                    /\ cumulative' = cumulative
              /\ last'.ret[1].card_type = "FREEZE" =>
                    /\ cumulative' = [cumulative EXCEPT ![current] = @ + compute_round_score(ps)]
                    /\ ~players'[current].active
                    /\ ~players'[current].busted
                    /\ ~round_active']_vars

\* C17 witness: the only player left drew FlipThree and owes the three draws.
C17_FlipThreeOnDrawer ==
    /\ last.op = "step" /\ last.action = "Hit" /\ last.ret # None
    /\ last.ret[1] = ActionCard("FLIP_THREE")
    /\ ~players[1 - current].active /\ players[current].active
    /\ players[current].pending_flips >= 3
    /\ ~players[current].need_flip_decision

\* what the round has added to player p's cumulative score so far: nothing while
\* p is active, the round score of p's final state once p is out
RoundScore(p) == IF players[p].active THEN 0 ELSE compute_round_score(players[p])

C19_DecisionFlags ==
    LET flip == {p \in Players : players[p].need_flip_decision}
        freeze == {p \in Players : players[p].need_freeze_decision}
    IN  /\ Cardinality(flip) + Cardinality(freeze) <= 1
        /\ \A p \in flip \cup freeze :
              /\ p = current
              /\ round_active
              /\ players[p].active
              /\ players[1 - p].active
        /\ \A p \in Players : ~players[p].active => p \notin flip \cup freeze

\* C19 witness: the current player, holding a Second Chance, drew FlipThree with
\* the opponent still in the round and has the decision to take.
C19_FlipDecisionPending ==
    /\ last.op = "step" /\ last.ret = Some(ActionCard("FLIP_THREE"))
    /\ players[current].need_flip_decision
    /\ players[current].has_second_chance
    /\ players[1 - current].flipped # <<>>

\* the number cards of a deck
NumberCards(deck) ==
    BagCardinality([c \in {d \in DOMAIN deck : isNumberCard(d)} |-> deck[c]])

\* the Number draws a round can make with a deck of the given values: each of
\* the two players appends each value once and busts once, and each Second
\* Chance of the deck saves one duplicate
MaxNumberDraws(deck, values) ==
    2 * values + 2 + CopiesIn(ActionCard("SECOND_CHANCE"), deck)

\* C20: every round terminates: from a round start the loop that applies any
\* legal action, or flips current when none is offered, reaches
\* round_active = false for every choice of actions and every deck order; it
\* never skips twice in a row; and the draw pile is never exhausted: no draw of
\* the round reshuffles, the pile holding more number cards than a round can
\* draw (in the program's deck as in the one played here).
C20_RoundTerminates ==
    /\ <>(~round_active)
    /\ [][last'.op = "skip" => (last.op # "skip" /\ get_actions' # <<>>)]_vars
    /\ [](/\ ~last.reshuffled /\ ~last.raised
          /\ round_active => cards # EmptyBag
          /\ NumberCards(RoundDeck) > MaxNumberDraws(RoundDeck, NumberRange)
          /\ NumberCards(FullDeck) > MaxNumberDraws(FullDeck, 13))

\* C20 witness: the longest kind of round has ended: both players flipped every
\* value of the deck and then busted on a duplicate, and cards are left in the
\* draw pile.
C20_LongRoundEnded ==
    /\ pc = "round" /\ ~round_active
    /\ \A p \in Players : players[p].busted /\ Len(players[p].flipped) = NumberRange
    /\ cards # EmptyBag

====
